---- MODULE Spec2Model ----
(***************************************************************************)
(* The bencode decoder of bruh-torrent (src/src/bencode.rs).               *)
(*                                                                         *)
(* A byte is a number in 0..255 and a buffer is a sequence of bytes.  A    *)
(* Rust slice &[u8] of the buffer is the pair of offsets [lo, hi) it       *)
(* occupies, so that the `unparsed` span of a node keeps its place in the  *)
(* input.  The decoders are pure functions of the slice they are given;    *)
(* the state machine draws a buffer and applies one of them to it.         *)
(***************************************************************************)
EXTENDS Integers, Sequences, FiniteSets, TLC

VARIABLES content, pc, fn, result

vars == <<content, pc, fn, result>>

---------------------------------------------------------------------------
(* Machine words.  usize and i64 are 64 bits wide in the program; the      *)
(* model keeps both kinds of arithmetic but scales the widths down, so     *)
(* that the literals that overflow them are short enough to enumerate.     *)

UsizeBits == 5

I64Bits == 7

UsizeMax == 2 ^ UsizeBits - 1

I64Max == 2 ^ (I64Bits - 1) - 1

I64Min == -(2 ^ (I64Bits - 1))

(* The framing bytes the decoders test for. *)
ByteI == 105

ByteE == 101

ByteL == 108

ByteD == 100

ByteColon == 58

Byte0 == 48

Byte9 == 57

---------------------------------------------------------------------------
(* Slices *)

Slice(lo, hi) == [lo |-> lo, hi |-> hi]

\* content.len()
SliceLen(c) == c.hi - c.lo

\* content[k]
At(B, c, k) == B[c.lo + k + 1]

\* the bytes of a slice, as an owned sequence (to_vec)
ToVec(B, c) == SubSeq(B, c.lo + 1, c.hi)

\* content.iter().position(|c| c == &byte): the first index, or NotFound
NotFound == -1

Position(B, c, byte) ==
  LET hits == {k \in 0..(SliceLen(c) - 1) : At(B, c, k) = byte}
  IN IF hits = {} THEN NotFound
     ELSE CHOOSE k \in hits : \A j \in hits : k <= j

---------------------------------------------------------------------------
(* Library functions the decoders call *)

IsCont(b) == b >= 128 /\ b <= 191

\* str::from_utf8(s).is_ok(): s is well-formed UTF-8 from index i on
RECURSIVE Utf8From(_, _)
Utf8From(s, i) ==
  IF i > Len(s) THEN TRUE
  ELSE LET b == s[i]
           n == Len(s)
       IN CASE b < 128 -> Utf8From(s, i + 1)
            [] b >= 194 /\ b <= 223 ->
                 /\ i + 1 <= n /\ IsCont(s[i + 1])
                 /\ Utf8From(s, i + 2)
            [] b >= 224 /\ b <= 239 ->
                 /\ i + 2 <= n /\ IsCont(s[i + 1]) /\ IsCont(s[i + 2])
                 /\ (b = 224 => s[i + 1] >= 160)
                 /\ (b = 237 => s[i + 1] <= 159)
                 /\ Utf8From(s, i + 3)
            [] b >= 240 /\ b <= 244 ->
                 /\ i + 3 <= n
                 /\ IsCont(s[i + 1]) /\ IsCont(s[i + 2]) /\ IsCont(s[i + 3])
                 /\ (b = 240 => s[i + 1] >= 144)
                 /\ (b = 244 => s[i + 1] <= 143)
                 /\ Utf8From(s, i + 4)
            [] OTHER -> FALSE

from_utf8_ok(s) == Utf8From(s, 1)

IsDigit(b) == b >= 48 /\ b <= 57

\* The digit loop of <int>::from_str: checked_mul(10) then checked_add (or
\* checked_sub for a negative literal) of each digit; anything that is no
\* digit, or a step that leaves lo..hi, is an error.
RECURSIVE FromDigits(_, _, _, _, _, _)
FromDigits(s, i, acc, neg, lo, hi) ==
  IF i > Len(s) THEN [ok |-> TRUE, v |-> acc]
  ELSE IF ~IsDigit(s[i]) THEN [ok |-> FALSE, v |-> 0]
  ELSE LET d == s[i] - 48
           nxt == IF neg THEN acc * 10 - d ELSE acc * 10 + d
       IN IF nxt < lo \/ nxt > hi THEN [ok |-> FALSE, v |-> 0]
          ELSE FromDigits(s, i + 1, nxt, neg, lo, hi)

\* s.parse::<i64>(): an optional '+' or '-', then at least one digit
parse_i64(s) ==
  IF Len(s) = 0 THEN [ok |-> FALSE, v |-> 0]
  ELSE IF s[1] = 43 \/ s[1] = 45
       THEN IF Len(s) = 1 THEN [ok |-> FALSE, v |-> 0]
            ELSE FromDigits(s, 2, 0, s[1] = 45, I64Min, I64Max)
       ELSE FromDigits(s, 1, 0, FALSE, I64Min, I64Max)

\* s.parse::<usize>(): an optional '+', then at least one digit
parse_usize(s) ==
  IF Len(s) = 0 THEN [ok |-> FALSE, v |-> 0]
  ELSE IF s[1] = 43
       THEN IF Len(s) = 1 THEN [ok |-> FALSE, v |-> 0]
            ELSE FromDigits(s, 2, 0, FALSE, 0, UsizeMax)
       ELSE FromDigits(s, 1, 0, FALSE, 0, UsizeMax)

---------------------------------------------------------------------------
(* Outcomes.  A decoder returns Option<Result<(T, usize), ParseError>>:    *)
(* "none" is None, "err" is Some(Err(e)), "ok" is Some(Ok((v, len))).      *)
(* "panic" is the thread unwinding instead of the call returning.          *)

None == [tag |-> "none", v |-> 0, len |-> 0, err |-> ""]

Err(e) == [tag |-> "err", v |-> 0, len |-> 0, err |-> e]

Ok(v, len) == [tag |-> "ok", v |-> v, len |-> len, err |-> ""]

Panic == [tag |-> "panic", v |-> 0, len |-> 0, err |-> ""]

\* Value::Integer(i), Value::ByteString(bs), Value::List(l), Value::Dictionary(d)
Value(type, v) == [type |-> type, v |-> v]

\* ri.map(|(i, l)| (Value::Integer(i), l)) and its three siblings
MapValue(r, type) ==
  IF r.tag = "ok" THEN Ok(Value(type, r.v), r.len) ELSE r

\* a.or(b): both operands are evaluated before `or` chooses, so a panic in
\* either one is a panic of the whole expression
Or(a, b) ==
  IF a.tag = "panic" THEN a
  ELSE IF b.tag = "panic" THEN b
  ELSE IF a.tag # "none" THEN a
  ELSE b

\* value_idx + length on usize: with overflow checks (a debug build) the
\* addition panics, without them (a release build) it wraps
UsizeAdd(a, b, oc) ==
  IF a + b <= UsizeMax THEN [panic |-> FALSE, v |-> a + b]
  ELSE IF oc THEN [panic |-> TRUE, v |-> 0]
  ELSE [panic |-> FALSE, v |-> (a + b) % (UsizeMax + 1)]

---------------------------------------------------------------------------
(* The decoders *)

\* parse_interger with the consumed length one short: the closing 'e' is
\* left to the caller
parse_interger_short(B, c) ==
  IF At(B, c, 0) # ByteI THEN None
  ELSE LET e_idx == Position(B, c, ByteE)
       IN IF e_idx = NotFound THEN Err("UnexpectedEndOfData")
          ELSE LET int_slice == ToVec(B, Slice(c.lo + 1, c.lo + e_idx))
               IN IF ~from_utf8_ok(int_slice) THEN Err("NonUtf8Integer")
                  ELSE LET int == parse_i64(int_slice)
                       IN IF ~int.ok THEN Err("InvalidInteger")
                          ELSE Ok(int.v, e_idx)

parse_interger(B, c) ==
  IF At(B, c, 0) # ByteI THEN None
  ELSE LET e_idx == Position(B, c, ByteE)
       IN IF e_idx = NotFound THEN Err("UnexpectedEndOfData")
          ELSE LET int_slice == ToVec(B, Slice(c.lo + 1, c.lo + e_idx))
               IN IF ~from_utf8_ok(int_slice) THEN Err("NonUtf8Integer")
                  ELSE LET int == parse_i64(int_slice)
                       IN IF ~int.ok THEN Err("InvalidInteger")
                          ELSE Ok(int.v, e_idx + 1)

parse_byte_string(B, c, oc) ==
  LET first_char == At(B, c, 0)
  IN IF first_char <= Byte0 \/ first_char >= Byte9 THEN None
     ELSE LET colon_idx == Position(B, c, ByteColon)
          IN IF colon_idx = NotFound THEN None
             ELSE LET length_slice == ToVec(B, Slice(c.lo, c.lo + colon_idx))
                  IN IF ~from_utf8_ok(length_slice) THEN None
                     ELSE LET length == parse_usize(length_slice)
                          IN IF ~length.ok THEN None
                             ELSE LET value_idx == colon_idx + 1
                                      value_end_idx == UsizeAdd(value_idx, length.v, oc)
                                  IN IF value_end_idx.panic THEN Panic
                                     ELSE IF value_end_idx.v > SliceLen(c)
                                          THEN Err("UnexpectedEndOfData")
                                     \* content[value_idx..value_end_idx]
                                     ELSE IF value_idx > value_end_idx.v THEN Panic
                                     ELSE Ok(ToVec(B, Slice(c.lo + value_idx,
                                                            c.lo + value_end_idx.v)),
                                             value_end_idx.v)

\* NodeOf with the span left uncut: unparsed: content_from_value
NodeOf_uncut(value, content_from_value, value_parse_len) ==
  [value |-> value, unparsed |-> content_from_value]

\* Node { value, unparsed: &content_from_value[..value_parse_len] }
NodeOf(value, content_from_value, value_parse_len) ==
  [value |-> value,
   unparsed |-> Slice(content_from_value.lo, content_from_value.lo + value_parse_len)]

\* list.push(node)
ListPush(list, node) == Append(list, node)

\* DictInsert that keeps a present key's node: dict.entry(key).or_insert(node)
DictInsert_keep(dict, key, node) ==
  [k \in (DOMAIN dict) \cup {key} |-> IF k \in DOMAIN dict THEN dict[k] ELSE node]

\* dict.insert(key, node): a present key's node is replaced
DictInsert(dict, key, node) ==
  [k \in (DOMAIN dict) \cup {key} |-> IF k = key THEN node ELSE dict[k]]

RECURSIVE parse_value(_, _, _)
RECURSIVE ListLoop(_, _, _, _, _)
RECURSIVE DictLoop(_, _, _, _, _)

\* the loop of parse_list, from its head with the locals list and parse_len
ListLoop(B, c, oc, list, parse_len) ==
  IF parse_len = SliceLen(c) THEN Err("UnexpectedEndOfData")
  ELSE IF parse_len > SliceLen(c) THEN Panic     \* content[parse_len]
  ELSE IF At(B, c, parse_len) = ByteE THEN Ok(list, parse_len + 1)
  ELSE LET content_from_value == Slice(c.lo + parse_len, c.hi)
           r == parse_value(B, content_from_value, oc)
       IN IF r.tag # "ok" THEN r
          ELSE IF r.len > SliceLen(content_from_value) THEN Panic
          ELSE ListLoop(B, c, oc,
                        ListPush(list, NodeOf(r.v, content_from_value, r.len)),
                        parse_len + r.len)

parse_list(B, c, oc) ==
  IF At(B, c, 0) # ByteL THEN None
  ELSE ListLoop(B, c, oc, <<>>, 1)

\* the loop of parse_dictionary, from its head with the locals dict and parse_len
DictLoop(B, c, oc, dict, parse_len) ==
  IF parse_len = SliceLen(c) THEN Err("UnexpectedEndOfData")
  ELSE IF parse_len > SliceLen(c) THEN Panic     \* content[parse_len]
  ELSE IF At(B, c, parse_len) = ByteE THEN Ok(dict, parse_len + 1)
  ELSE LET content_from_key == Slice(c.lo + parse_len, c.hi)
           k == parse_byte_string(B, content_from_key, oc)
       IN IF k.tag = "none" THEN Err("NonByteStringDictKey")
          ELSE IF k.tag # "ok" THEN k
          ELSE IF ~from_utf8_ok(k.v) THEN Err("NonUtf8DictKey")
          ELSE IF k.len > SliceLen(content_from_key) THEN Panic
          ELSE LET content_from_value == Slice(content_from_key.lo + k.len, c.hi)
                   r == parse_value(B, content_from_value, oc)
               IN IF r.tag # "ok" THEN r
                  ELSE IF r.len > SliceLen(content_from_value) THEN Panic
                  ELSE DictLoop(B, c, oc,
                                DictInsert(dict, k.v,
                                           NodeOf(r.v, content_from_value, r.len)),
                                parse_len + k.len + r.len)

parse_dictionary(B, c, oc) ==
  IF At(B, c, 0) # ByteD THEN None
  ELSE DictLoop(B, c, oc, <<>>, 1)

parse_value(B, c, oc) ==
  IF SliceLen(c) = 0 THEN Err("UnexpectedEndOfData")
  ELSE LET r == Or(Or(Or(MapValue(parse_interger(B, c), "Integer"),
                         MapValue(parse_byte_string(B, c, oc), "ByteString")),
                      MapValue(parse_list(B, c, oc), "List")),
                   MapValue(parse_dictionary(B, c, oc), "Dictionary"))
       IN IF r.tag = "none" THEN Err("InvalidPrefix") ELSE r

parse(B, c, oc) ==
  LET r == parse_value(B, c, oc)
  IN IF r.tag # "ok" THEN r
     ELSE IF r.len = SliceLen(c)
          THEN Ok([value |-> r.v, unparsed |-> c], r.len)
          ELSE Err("DataAfterBencode")

---------------------------------------------------------------------------
(* Inputs.  The buffers the decoders are applied to: every short string    *)
(* over the framing bytes, integer and byte-string encodings around the    *)
(* limits of the machine words, encodings built by the grammar with their  *)
(* truncations and extensions, and the examples of the specification.     *)

MaxLen == 4

MaxLit == 3

MaxPayload == 3

Margin == 3

NestLevels == 2

SeqsUpTo(S, n) == UNION {[1..k -> S] : k \in 0..n}

RECURSIVE NatToStr(_)
NatToStr(n) ==
  IF n < 10 THEN <<48 + n>> ELSE NatToStr(n \div 10) \o <<48 + (n % 10)>>

\* the decimal literal of an integer
IntToStr(n) == IF n < 0 THEN <<45>> \o NatToStr(-n) ELSE NatToStr(n)

\* i, e, l, d, ':', '0', '1', 'a'
Alphabet == {ByteI, ByteE, ByteL, ByteD, ByteColon, Byte0, 49, 97}

ShortInputs == SeqsUpTo(Alphabet, MaxLen)

\* '-', '+', ' ', '1', '0', 0xFF (never part of UTF-8), and 0xC3 0xA9 (U+00E9)
LitAlphabet == {45, 43, 32, 49, 48, 255, 195, 169}

IntLiterals ==
  {IntToStr(n) : n \in (I64Min - Margin)..(I64Max + Margin)}
    \cup {<<48>> \o IntToStr(n) : n \in 0..Margin}
    \cup SeqsUpTo(LitAlphabet, MaxLit)

IntegerInputs ==
  {<<ByteI>> \o lit \o <<ByteE>> \o tail :
     lit \in IntLiterals, tail \in {<<>>, <<ByteE>>, <<49, ByteE>>}}

LengthLiterals ==
  {IntToStr(n) : n \in 0..(UsizeMax + Margin)}
    \cup {<<48>> \o IntToStr(n) : n \in 0..Margin}

ByteStringInputs ==
  {lit \o <<ByteColon>> \o payload :
     lit \in LengthLiterals, payload \in SeqsUpTo({97}, MaxPayload)}
    \cup {<<57, ByteColon>> \o [k \in 1..n |-> 97] : n \in 8..10}

\* Encodings built by the grammar of section 4: integers, byte-strings,
\* lists and dictionaries of them, nested up to n levels.
IntEnc(n) == <<ByteI>> \o IntToStr(n) \o <<ByteE>>

StrEnc(p) == IntToStr(Len(p)) \o <<ByteColon>> \o p

LeafEnc == {IntEnc(1), StrEnc(<<>>), StrEnc(<<97>>)}

KeyEnc == {StrEnc(<<97>>), StrEnc(<<98>>)}

ContainersOf(S) ==
  {<<ByteL, ByteE>>, <<ByteD, ByteE>>}
    \cup {<<ByteL>> \o x \o <<ByteE>> : x \in S}
    \cup {<<ByteL>> \o x \o y \o <<ByteE>> : x \in S, y \in LeafEnc}
    \cup {<<ByteD>> \o k \o x \o <<ByteE>> : k \in KeyEnc, x \in S}
    \cup {<<ByteD>> \o k1 \o x \o k2 \o y \o <<ByteE>> :
            k1 \in KeyEnc, x \in LeafEnc, k2 \in KeyEnc, y \in LeafEnc}

RECURSIVE EncLevel(_)
EncLevel(n) ==
  IF n = 0 THEN LeafEnc
  ELSE LET S == EncLevel(n - 1) IN S \cup ContainersOf(S)

ValidEnc == EncLevel(NestLevels)

\* the strict, non-empty prefixes of the members of S
StrictPrefixes(S) == UNION {{SubSeq(E, 1, k) : k \in 1..(Len(E) - 1)} : E \in S}

Extensions(S) == {E \o <<x>> : E \in S, x \in {ByteE, 97}}

NestedInputs ==
  ValidEnc \cup StrictPrefixes(ValidEnc) \cup Extensions(ValidEnc)

SpecExamples ==
  {  <<105, 52, 50, 101>>,   \* i42e
     <<52, 58, 115, 112, 97, 109>>,   \* 4:spam
     <<108, 52, 58, 115, 112, 97, 109, 52, 58, 101, 103, 103, 115, 101>>,   \* l4:spam4:eggse
     <<100, 51, 58, 99, 111, 119, 51, 58, 109, 111, 111, 52, 58, 115, 112, 97, 109,
       52, 58, 101, 103, 103, 115, 101>>,   \* d3:cow3:moo4:spam4:eggse
     <<105, 48, 101>>,   \* i0e
     <<105, 45, 53, 101>>,   \* i-5e
     <<105, 57, 57, 57, 57, 57, 57, 57, 57, 57, 57, 57, 57, 57, 57, 57, 57, 57, 57,
       57, 57, 101>>,   \* i99999999999999999999e
     <<105, 101>>,   \* ie
     <<105, 32, 101>>,   \* i e
     <<48, 58>>,   \* 0:
     <<51, 58, 97, 98>>,   \* 3:ab
     <<108, 100, 51, 58, 99, 111, 119, 51, 58, 109, 111, 111, 101, 101>>,   \* ld3:cow3:mooee
     <<100, 51, 58, 99, 111, 119, 51, 58, 109, 111, 111, 51, 58, 99, 111, 119, 51,
       58, 98, 97, 97, 101>>,   \* d3:cow3:moo3:cow3:baae
     <<100, 105, 53, 101, 105, 54, 101, 101>>,   \* di5ei6ee
     <<100, 49, 58, 255, 108, 101, 101>>   \* d1:\xFFlee
  }

Inputs ==
  ShortInputs \cup IntegerInputs \cup ByteStringInputs \cup NestedInputs
              \cup SpecExamples

---------------------------------------------------------------------------
(* The state machine: a buffer is loaded, the build is fixed, and one of   *)
(* the functions of the module is applied to the whole buffer.             *)

Whole == Slice(0, Len(content))

Init ==
  /\ content \in Inputs
  /\ pc = "ready"
  /\ fn = "none"
  /\ result = None

Return(f, r) ==
  /\ pc' = "done"
  /\ fn' = f
  /\ result' = r
  /\ UNCHANGED content

\* pub fn parse(content)
CallParse ==
  /\ pc = "ready"
  /\ \E oc \in BOOLEAN : Return("parse", parse(content, Whole, oc))

\* fn parse_value(content)
CallParseValue ==
  /\ pc = "ready"
  /\ \E oc \in BOOLEAN : Return("parse_value", parse_value(content, Whole, oc))

\* the parse_<type> functions expect non-empty inputs
CallParseInteger ==
  /\ pc = "ready"
  /\ Len(content) > 0
  /\ Return("parse_interger", parse_interger(content, Whole))

CallParseByteString ==
  /\ pc = "ready"
  /\ Len(content) > 0
  /\ \E oc \in BOOLEAN :
       Return("parse_byte_string", parse_byte_string(content, Whole, oc))

CallParseList ==
  /\ pc = "ready"
  /\ Len(content) > 0
  /\ \E oc \in BOOLEAN : Return("parse_list", parse_list(content, Whole, oc))

CallParseDictionary ==
  /\ pc = "ready"
  /\ Len(content) > 0
  /\ \E oc \in BOOLEAN :
       Return("parse_dictionary", parse_dictionary(content, Whole, oc))

Next ==
  \/ CallParse
  \/ CallParseValue
  \/ CallParseInteger
  \/ CallParseByteString
  \/ CallParseList
  \/ CallParseDictionary

Spec == Init /\ [][Next]_vars

TypeOK ==
  /\ pc \in {"ready", "done"}
  /\ result.tag \in {"none", "ok", "err", "panic"}

---------------------------------------------------------------------------
(* Definitions the properties below are stated with *)

Done(f) == pc = "done" /\ fn = f

\* r is Some(Err(e)), or Err(e)
IsErr(r, e) == r.tag = "err" /\ r.err = e

\* the first (1-based) place of byte b in a buffer, 0 when it has none
FirstOf(B, b) ==
  IF \E k \in 1..Len(B) : B[k] = b
  THEN CHOOSE k \in 1..Len(B) : B[k] = b /\ \A j \in 1..(k - 1) : B[j] # b
  ELSE 0

StartsWith(B, p) == Len(B) >= Len(p) /\ SubSeq(B, 1, Len(p)) = p

Zeros(n) == [k \in 1..n |-> 48]

\* lit is a decimal literal of v: an optional sign, leading zeros, the digits
Denotes(lit, v) ==
  LET abs == IF v < 0 THEN -v ELSE v
  IN \E sign \in {<<>>, <<43>>, <<45>>} : \E z \in 0..Len(lit) :
       /\ lit = sign \o Zeros(z) \o NatToStr(abs)
       /\ (sign = <<45>> => v <= 0)
       /\ (sign # <<45>> => v >= 0)

\* two decoded values are the same value (the types are compared first)
SameValue(a, b) == a.type = b.type /\ a = b

SameNode(a, b) == a.unparsed = b.unparsed /\ SameValue(a.value, b.value)

\* the nesting of a decoded value: 0 for a leaf, 1 for a flat container
RECURSIVE Depth(_)
Depth(value) ==
  IF value.type = "List"
  THEN 1 + (IF value.v = <<>> THEN 0
            ELSE LET ds == {Depth(value.v[i].value) : i \in 1..Len(value.v)}
                 IN CHOOSE m \in ds : \A x \in ds : x <= m)
  ELSE IF value.type = "Dictionary"
  THEN 1 + (IF DOMAIN value.v = {} THEN 0
            ELSE LET ds == {Depth(value.v[k].value) : k \in DOMAIN value.v}
                 IN CHOOSE m \in ds : \A x \in ds : x <= m)
  ELSE 0

ValidPrefixes == StrictPrefixes(ValidEnc)

ValidExtended ==
  \E k \in 1..(Len(content) - 1) : SubSeq(content, 1, k) \in ValidEnc

---------------------------------------------------------------------------
(* Properties *)

\* C1: parse(B) returns Ok only when the value decoded at offset 0 consumed
\* the whole of B, and the node's span is then B; a decoded value that
\* consumed less makes parse fail with DataAfterBencode; and for every
\* valid encoding E and non-empty X, parse(E) succeeds with span length
\* len(E) and parse(E ++ X) fails with DataAfterBencode.
C1_ParseWholeBuffer ==
  Done("parse") =>
    /\ result.tag = "ok" =>
         result.len = Len(content) /\ result.v.unparsed = Whole
    /\ \A oc \in BOOLEAN :
         LET r == parse_value(content, Whole, oc)
         IN (r.tag = "ok" /\ r.len < Len(content))
              => IsErr(result, "DataAfterBencode")
    /\ content \in ValidEnc =>
         result.tag = "ok" /\ SliceLen(result.v.unparsed) = Len(content)
    /\ ValidExtended => IsErr(result, "DataAfterBencode")

\* The part of C1 that is about parse itself (lines 110-118), without the
\* assumption that every valid encoding is accepted by the decoders.
ParseChecksTrailingData ==
  Done("parse") =>
    /\ result.tag = "ok" =>
         result.len = Len(content) /\ result.v.unparsed = Whole
    /\ \A oc \in BOOLEAN :
         LET r == parse_value(content, Whole, oc)
         IN /\ (r.tag = "ok" /\ r.len < Len(content))
                 => IsErr(result, "DataAfterBencode")
            /\ (r.tag = "ok" /\ r.len = Len(content)) => result.tag = "ok"

\* C3: parse of every strict, non-empty prefix of a valid encoding fails
\* with UnexpectedEndOfData, and with nothing else.
C3_TruncationIsEndOfData ==
  (Done("parse") /\ content \in ValidPrefixes)
    => IsErr(result, "UnexpectedEndOfData")

\* C4: the byte-string decoder accepts every leading digit '0'..'9': a
\* declared length n, ':' and n payload bytes decode to ByteString of those
\* bytes with consumed length index of ':' + 1 + n; "0:" is the empty
\* byte-string, consumed length 2.
C4_ByteStringEveryDigit ==
  Done("parse_byte_string") =>
    \A n \in 0..Len(content) :
      \A lit \in {IntToStr(n), <<48>> \o IntToStr(n)} :
        (/\ n <= UsizeMax
         /\ StartsWith(content, lit \o <<ByteColon>>)
         /\ Len(lit) + 1 + n <= Len(content))
          => /\ result.tag = "ok"
             /\ result.len = Len(lit) + 1 + n
             /\ result.v = SubSeq(content, Len(lit) + 2, Len(lit) + 1 + n)

\* C5: parse_value fails with UnexpectedEndOfData on the empty slice; on a
\* non-empty slice it fails with InvalidPrefix exactly when the leading byte
\* is none of 'i', '0'..'9', 'l', 'd'; a leading digit with no ':' is
\* UnexpectedEndOfData.
C5_InvalidPrefixIffNoProduction ==
  Done("parse_value") =>
    IF Len(content) = 0 THEN IsErr(result, "UnexpectedEndOfData")
    ELSE /\ IsErr(result, "InvalidPrefix")
              <=> content[1] \notin ({ByteI, ByteL, ByteD} \cup (Byte0..Byte9))
         /\ (content[1] \in Byte0..Byte9 /\ FirstOf(content, ByteColon) = 0)
              => IsErr(result, "UnexpectedEndOfData")

\* C6 as written: on a slice that starts with 'i' and holds an 'e', the
\* integer decoder returns the value of the literal or fails with
\* InvalidInteger, and with no other error.
C6_OnlyInvalidInteger ==
  (Done("parse_interger") /\ content[1] = ByteI /\ FirstOf(content, ByteE) # 0)
    => (result.tag = "ok" \/ IsErr(result, "InvalidInteger"))

\* C6 amended: on a slice that starts with 'i' and holds an 'e', the integer
\* decoder returns the i64 value of the literal between 'i' and the first
\* 'e' with consumed length index of that 'e' + 1, or fails: with
\* NonUtf8Integer when the literal is not UTF-8 text, with InvalidInteger
\* for every other failure (empty, malformed, out of the i64 range); an
\* out-of-range literal never yields a value.
C6_IntegerDecoder ==
  (Done("parse_interger") /\ content[1] = ByteI /\ FirstOf(content, ByteE) # 0)
    => LET e == FirstOf(content, ByteE)
           lit == SubSeq(content, 2, e - 1)
       IN /\ result.tag \in {"ok", "err"}
          /\ result.tag = "ok" =>
               /\ result.len = e
               /\ result.v \in I64Min..I64Max
               /\ Denotes(lit, result.v)
          /\ result.tag = "err" =>
               /\ result.err \in {"InvalidInteger", "NonUtf8Integer"}
               /\ result.err = "NonUtf8Integer" <=> ~from_utf8_ok(lit)
          /\ \A n \in (I64Min - Margin)..(I64Max + Margin) :
               lit = IntToStr(n) =>
                 IF n \in I64Min..I64Max
                 THEN result.tag = "ok" /\ result.v = n /\ result.len = e
                 ELSE IsErr(result, "InvalidInteger")

\* a literal that is not text was rejected as NonUtf8Integer
C6_Witness ==
  /\ Done("parse_interger")
  /\ content[1] = ByteI
  /\ FirstOf(content, ByteE) = 3
  /\ content[2] = 255
  /\ IsErr(result, "NonUtf8Integer")

\* C7 (its clause on sums beyond the word range): a declared length n that
\* fits the word, with index of ':' + 1 + n beyond the word range and so
\* beyond the slice, makes the byte-string decoder fail with
\* UnexpectedEndOfData: no panic, no wrapped end index.
C7_LengthBeyondSlice ==
  Done("parse_byte_string") =>
    \A n \in 1..UsizeMax :
      LET lit == IntToStr(n)
      IN (/\ StartsWith(content, lit \o <<ByteColon>>)
          /\ Len(lit) + 1 + n > Len(content)
          /\ Len(lit) + 1 + n > UsizeMax)
           => IsErr(result, "UnexpectedEndOfData")

\* the spans of a container's children lie in its interior: after the
\* opening byte and before the closing 'e'
Inside(child, parent) ==
  /\ parent.lo + 1 <= child.lo
  /\ child.lo < child.hi
  /\ child.hi <= parent.hi - 1

\* a node's span is what decoding consumed (decoding the span alone gives
\* the node back and consumes all of it), its children lie in its interior,
\* apart and in decoding order, and the same holds of every child
RECURSIVE WellSpanned(_, _)
WellSpanned(B, node) ==
  LET s == node.unparsed
      r == parse_value(B, s, TRUE)
  IN /\ 0 <= s.lo /\ s.lo < s.hi /\ s.hi <= Len(B)
     /\ r.tag = "ok"
     /\ r.len = SliceLen(s)
     /\ SameValue(r.v, node.value)
     /\ node.value.type = "List" =>
          LET l == node.value.v
          IN /\ \A i \in 1..Len(l) : Inside(l[i].unparsed, s)
             /\ \A i \in 1..(Len(l) - 1) : l[i].unparsed.hi <= l[i + 1].unparsed.lo
             /\ \A i \in 1..Len(l) : WellSpanned(B, l[i])
     /\ node.value.type = "Dictionary" =>
          LET d == node.value.v
          IN /\ \A k \in DOMAIN d : Inside(d[k].unparsed, s)
             /\ \A j, k \in DOMAIN d :
                  j # k => \/ d[j].unparsed.hi <= d[k].unparsed.lo
                           \/ d[k].unparsed.hi <= d[j].unparsed.lo
             /\ \A k \in DOMAIN d : WellSpanned(B, d[k])

\* C2: in the tree of a successful parse, every node's span is exactly the
\* bytes its decoder consumed, and the spans of the children of a List or
\* Dictionary are pairwise apart, in decoding order, and strictly inside
\* the parent's interior.
C2_SpansExact ==
  (Done("parse") /\ result.tag = "ok") => WellSpanned(content, result.v)

\* a list of at least two elements, the first of them a non-empty dictionary
C2_Witness ==
  /\ Done("parse")
  /\ result.tag = "ok"
  /\ result.v.value.type = "List"
  /\ Len(result.v.value.v) >= 2
  /\ result.v.value.v[1].value.type = "Dictionary"
  /\ DOMAIN result.v.value.v[1].value.v # {}

\* the key/value pairs a dictionary encoding holds from offset pos on, in
\* the order they are written, each with its key, the length of its key's
\* encoding and the node decoded from its value
RECURSIVE PairsFrom(_, _)
PairsFrom(B, pos) ==
  IF pos >= Len(B) \/ B[pos + 1] = ByteE THEN <<>>
  ELSE LET k == parse_byte_string(B, Slice(pos, Len(B)), TRUE)
       IN IF k.tag # "ok" THEN <<>>
          ELSE LET from == Slice(pos + k.len, Len(B))
                   r == parse_value(B, from, TRUE)
               IN IF r.tag # "ok" THEN <<>>
                  ELSE <<[key |-> k.v, key_len |-> k.len,
                          node |-> [value |-> r.v,
                                    unparsed |-> Slice(from.lo, from.lo + r.len)]]>>
                         \o PairsFrom(B, pos + k.len + r.len)

RECURSIVE PairsLen(_)
PairsLen(ps) ==
  IF ps = <<>> THEN 0
  ELSE ps[1].key_len + SliceLen(ps[1].node.unparsed) + PairsLen(Tail(ps))

C9_NestingBounded ==
  \E limit \in 1..(NestLevels - 1) :
    (Done("parse") /\ result.tag = "ok") => Depth(result.v.value) <= limit

\* C10: every call ends with a value or an error, and a successful call
\* reports a consumed length between 1 and the length of its slice.
C10_TerminatesInBounds ==
  pc = "done" =>
    /\ result.tag # "panic"
    /\ result.tag = "ok" => (1 <= result.len /\ result.len <= Len(content))

---------------------------------------------------------------------------
(* Supplementary properties: what remains of the refuted claims *)

\* Every successful call consumes at least 1 byte and at most its slice
\* (C10 without its clause on panics).
ConsumedWithinSlice ==
  (pc = "done" /\ result.tag = "ok")
    => (1 <= result.len /\ result.len <= Len(content))

\* C1 holds of every buffer that holds no '0' and no '9'.
C1_WithoutBoundaryDigits ==
  (\A i \in 1..Len(content) : content[i] \notin {Byte0, Byte9})
    => C1_ParseWholeBuffer

\* C5 restricted to the leading digits '1'..'8', which the decoder's own
\* test accepts: violated too (a digit with no ':' is InvalidPrefix).
C5_AcceptedDigitIsNotInvalidPrefix ==
  (Done("parse_value") /\ Len(content) > 0
     /\ content[1] > Byte0 /\ content[1] < Byte9)
    => ~IsErr(result, "InvalidPrefix")

====
